---------------------------- MODULE Spec2Model ----------------------------
(***************************************************************************)
(* Model of src/main.py: the Google Apps OAuth log analysis pipeline.      *)
(*                                                                         *)
(* A text is a sequence of symbols.  A symbol is one whitespace character  *)
(* (" ", "\t", "\n") or one word, a run of non-whitespace characters.      *)
(* Every literal of EVENT_PARSER and of the strptime format is a sequence  *)
(* of whole words and single spaces, so matching them symbol by symbol is  *)
(* what the regular expression engine does character by character.  The    *)
(* LIKE patterns of QUERY look inside words, so QUERY is evaluated on the  *)
(* spelling of the text, character by character.                           *)
(***************************************************************************)
EXTENDS Integers, Sequences, FiniteSets, TLC

VARIABLES
    log,        \* the rows read_csv loaded, each an event text and a date text
    pc,         \* where main is
    columns,    \* the column names of the current DataFrame
    frame,      \* the rows of the current DataFrame, each with its index label
    results,    \* the Series transform_row has returned so far
    k,          \* the row DataFrame.apply visits next
    groups,     \* the groups of the GroupBy, in iteration order
    g,          \* the group the print loop is at
    r,          \* the row of that group printed next (0: its header)
    out,        \* the lines printed
    status,     \* the process: "running", "exit 0", "exit 1"
    err,        \* the exception that ended the run, "none" if none
    event,      \* an event record to render (round trip)
    text,       \* an event text handed to the parser
    parsed      \* what lines 53-58 of transform_row made of text

vars == <<log, pc, columns, frame, results, k, groups, g, r, out, status, err,
          event, text, parsed>>

-----------------------------------------------------------------------------
(* Bounds of the model.                                                    *)

\* Largest number of rows of the log file.
MaxRows == 3

\* Largest number of pieces an event text handed to EVENT_PARSER is made of.
MaxPieces == 4

\* Largest number of scope tokens of a rendered event.
MaxScopes == 2

-----------------------------------------------------------------------------
(* Characters and words.                                                   *)

Whitespace == {" ", "\t", "\n"}

IsSpace(c) == c \in Whitespace

\* The spelling of every word the model's texts use.
Spell ==
      "alice" :> <<"a","l","i","c","e">> @@
      "bob" :> <<"b","o","b">> @@
      "x" :> <<"x">> @@
      "did" :> <<"d","i","d">> @@
      "for" :> <<"f","o","r">> @@
      "to" :> <<"t","o">> @@
      "access" :> <<"a","c","c","e","s","s">> @@
      "scopes" :> <<"s","c","o","p","e","s">> @@
      "authorized" :> <<"a","u","t","h","o","r","i","z","e","d">> @@
      "revoked" :> <<"r","e","v","o","k","e","d">> @@
      "docs.google.com/feeds" :> <<"d","o","c","s",".","g","o","o","g","l",
          "e",".","c","o","m","/","f","e","e","d","s">> @@
      "DOCS.Google.com/Feeds" :> <<"D","O","C","S",".","G","o","o","g","l",
          "e",".","c","o","m","/","F","e","e","d","s">> @@
      "docs.googleusercontent.com" :> <<"d","o","c","s",".","g","o","o","g",
          "l","e","u","s","e","r","c","o","n","t","e","n","t",".","c","o",
          "m">> @@
      "https://spreadsheets.google.com/feeds/" :> <<"h","t","t","p","s",":",
          "/","/","s","p","r","e","a","d","s","h","e","e","t","s",".","g",
          "o","o","g","l","e",".","c","o","m","/","f","e","e","d","s","/">> @@
      "docs.google.com/feed" :> <<"d","o","c","s",".","g","o","o","g","l",
          "e",".","c","o","m","/","f","e","e","d">>

Words == DOMAIN Spell

\* The characters of a text: spaces stand for themselves, words are spelt.
RECURSIVE Chars(_)
Chars(t) ==
    IF t = <<>> THEN <<>>
    ELSE (IF IsSpace(Head(t)) THEN <<Head(t)>> ELSE Spell[Head(t)])
         \o Chars(Tail(t))

\* The characters in ASCII order (Python 2 compares str values byte by byte).
Ascii ==
    <<"\t", "\n", " ", "%", ".", "/", ":",
      "A","B","C","D","E","F","G","H","I","J","K","L","M",
      "N","O","P","Q","R","S","T","U","V","W","X","Y","Z", "_",
      "a","b","c","d","e","f","g","h","i","j","k","l","m",
      "n","o","p","q","r","s","t","u","v","w","x","y","z">>

Ord(c) == CHOOSE n \in 1..Len(Ascii) : Ascii[n] = c

\* cmp(a, b) < 0 for two str values given by their characters.
RECURSIVE StrLt(_, _)
StrLt(a, b) ==
    IF b = <<>> THEN FALSE
    ELSE IF a = <<>> THEN TRUE
    ELSE IF Head(a) = Head(b) THEN StrLt(Tail(a), Tail(b))
    ELSE Ord(Head(a)) < Ord(Head(b))

-----------------------------------------------------------------------------
(* QUERY (main.py 18-24): SELECT event, date FROM log WHERE event LIKE ...  *)
(* run by SQLite, whose LIKE compares ASCII letters without regard to case, *)
(* matches any run of characters for % and any one character for _.         *)

AsciiLower ==
    "A" :> "a" @@ "B" :> "b" @@ "C" :> "c" @@ "D" :> "d" @@ "E" :> "e" @@
    "F" :> "f" @@ "G" :> "g" @@ "H" :> "h" @@ "I" :> "i" @@ "J" :> "j" @@
    "K" :> "k" @@ "L" :> "l" @@ "M" :> "m" @@ "N" :> "n" @@ "O" :> "o" @@
    "P" :> "p" @@ "Q" :> "q" @@ "R" :> "r" @@ "S" :> "s" @@ "T" :> "t" @@
    "U" :> "u" @@ "V" :> "v" @@ "W" :> "w" @@ "X" :> "x" @@ "Y" :> "y" @@
    "Z" :> "z"

Fold(c) == IF c \in DOMAIN AsciiLower THEN AsciiLower[c] ELSE c

PATTERN_DOCS_FEEDS ==
    <<"%","d","o","c","s",".","g","o","o","g","l","e",".","c","o","m","/",
      "f","e","e","d","s","%">>

PATTERN_USERCONTENT ==
    <<"%","d","o","c","s",".","g","o","o","g","l","e","u","s","e","r","c",
      "o","n","t","e","n","t",".","c","o","m","%">>

PATTERN_SPREADSHEETS ==
    <<"%","s","p","r","e","a","d","s","h","e","e","t","s",".","g","o","o",
      "g","l","e",".","c","o","m","/","f","e","e","d","s","%">>

\* s[j..] LIKE p[i..]
RECURSIVE LikeFrom(_, _, _, _)
LikeFrom(p, i, s, j) ==
    IF i > Len(p) THEN j > Len(s)
    ELSE IF p[i] = "%"
         THEN \E n \in j..(Len(s) + 1) : LikeFrom(p, i + 1, s, n)
    ELSE IF j > Len(s) THEN FALSE
    ELSE IF p[i] = "_" THEN LikeFrom(p, i + 1, s, j + 1)
    ELSE Fold(p[i]) = Fold(s[j]) /\ LikeFrom(p, i + 1, s, j + 1)

Like(s, p) == LikeFrom(p, 1, s, 1)

\* QUERY with its last LIKE left out.
QueryTwoMarkers(s) ==
    \/ Like(s, PATTERN_DOCS_FEEDS)
    \/ Like(s, PATTERN_USERCONTENT)

\* The WHERE clause of QUERY on the characters of an event.
QUERY(s) ==
    \/ Like(s, PATTERN_DOCS_FEEDS)
    \/ Like(s, PATTERN_USERCONTENT)
    \/ Like(s, PATTERN_SPREADSHEETS)

-----------------------------------------------------------------------------
(* EVENT_PARSER (main.py 13):                                               *)
(*   ^(.+) (revoked|authorized) access to (.+) for (.+) scopes$             *)

Actions == {"revoked", "authorized"}

ActionLit(a) == <<" ", a, " ", "access", " ", "to", " ">>
ForLit == <<" ", "for", " ">>
ScopesLit == <<" ", "scopes">>

\* The literal lit stands in t at position p.
LitAt(t, p, lit) ==
    /\ p >= 1
    /\ p + Len(lit) - 1 <= Len(t)
    /\ \A n \in 1..Len(lit) : t[p + n - 1] = lit[n]

\* "." matches every character but the line feed.
Dots(t, a, b) == a <= b /\ \A n \in a..b : t[n] # "\n"

\* "$" matches at the end of the text and before a line feed that ends it.
DollarAt(t, e) ==
    \/ e = Len(t)
    \/ e = Len(t) - 1 /\ t[Len(t)] = "\n"

\* Where the literals of the pattern stand in t.
ActionAts(t) == {i \in 1..Len(t) : \E a \in Actions : LitAt(t, i, ActionLit(a))}
ForAts(t) == {j \in 1..Len(t) : LitAt(t, j, ForLit)}
ScopesEnds(t) ==
    {e \in 1..Len(t) : LitAt(t, e - 1, ScopesLit) /\ DollarAt(t, e)}

\* The ways the pattern matches t: <<i, j, e>> with the action literal at i,
\* the " for " literal at j and " scopes" ending at e; each group is ".+".
Matches(t) ==
    {m \in ActionAts(t) \X ForAts(t) \X ScopesEnds(t) :
        /\ Dots(t, 1, m[1] - 1)
        /\ Dots(t, m[1] + 7, m[2] - 1)
        /\ Dots(t, m[2] + 3, m[3] - 2)}

\* The match the backtracking engine returns: each ".+" is greedy, the first
\* group first.
GreedyMatch(t) ==
    CHOOSE m \in Matches(t) :
        \A n \in Matches(t) :
            \/ n[1] < m[1]
            \/ n[1] = m[1] /\ n[2] < m[2]
            \/ n[1] = m[1] /\ n[2] = m[2] /\ n[3] <= m[3]

NoMatch == [ok |-> FALSE]

\* EVENT_PARSER.search(event) and m.groups().
EVENT_PARSER(t) ==
    IF Matches(t) = {} THEN NoMatch
    ELSE LET m == GreedyMatch(t)
         IN  [ok     |-> TRUE,
              user   |-> SubSeq(t, 1, m[1] - 1),
              action |-> t[m[1] + 1],
              app    |-> SubSeq(t, m[1] + 7, m[2] - 1),
              scope  |-> SubSeq(t, m[2] + 3, m[3] - 2)]

\* str.split(' '): cut at every single space, empty strings kept.
RECURSIVE SplitOnSpaceFrom(_, _)
SplitOnSpaceFrom(t, cur) ==
    IF t = <<>> THEN <<cur>>
    ELSE IF Head(t) = " "
         THEN <<cur>> \o SplitOnSpaceFrom(Tail(t), <<>>)
    ELSE SplitOnSpaceFrom(Tail(t), Append(cur, Head(t)))

SplitOnSpace(t) == SplitOnSpaceFrom(t, <<>>)

\* str.split(): the maximal runs of non-whitespace characters, in order.
RECURSIVE SplitFrom(_, _)
SplitFrom(t, cur) ==
    IF t = <<>> THEN (IF cur = <<>> THEN <<>> ELSE <<cur>>)
    ELSE IF IsSpace(Head(t))
         THEN (IF cur = <<>> THEN <<>> ELSE <<cur>>) \o SplitFrom(Tail(t), <<>>)
    ELSE SplitFrom(Tail(t), Append(cur, Head(t)))

Split(t) == SplitFrom(t, <<>>)

\* ' '.join(tokens)
RECURSIVE Join(_)
Join(toks) ==
    IF toks = <<>> THEN <<>>
    ELSE IF Len(toks) = 1 THEN toks[1]
    ELSE toks[1] \o <<" ">> \o Join(Tail(toks))

-----------------------------------------------------------------------------
(* parse_date (main.py 27-34).                                              *)

\* re.sub(r'\s+', ' ', s): every run of whitespace becomes one space.
RECURSIVE Collapse(_)
Collapse(s) ==
    IF s = <<>> THEN <<>>
    ELSE IF IsSpace(Head(s))
         THEN IF Len(s) > 1 /\ IsSpace(s[2])
              THEN Collapse(Tail(s))
              ELSE <<" ">> \o Collapse(Tail(s))
    ELSE <<Head(s)>> \o Collapse(Tail(s))

\* The directives of '%B %d %Y %I:%M:%S %p %Z' on the words of the model.
MonthOf == "January" :> 1 @@ "February" :> 2
DayOf == "5" :> 5 @@ "05" :> 5 @@ "6" :> 6
YearOf == "2021" :> 2021
\* %I takes an hour from 1 to 12: "13:00:00" is no clock time.
ClockOf == "12:00:00" :> <<12, 0, 0>> @@ "3:04:05" :> <<3, 4, 5>>
AmPm == {"AM", "PM"}
\* %Z takes UTC, GMT and the names of the local zone (here US Pacific).
TzNames == {"UTC", "GMT", "PST", "PDT"}

\* The format matches the whole of s.
StrptimeMatches(s) ==
    /\ Len(s) = 11
    /\ \A n \in {2, 4, 6, 8, 10} : s[n] = " "
    /\ s[1] \in DOMAIN MonthOf
    /\ s[3] \in DOMAIN DayOf
    /\ s[5] \in DOMAIN YearOf
    /\ s[7] \in DOMAIN ClockOf
    /\ s[9] \in AmPm
    /\ s[11] \in TzNames

\* The hour of the day of a 12-hour clock hour.
Hour24(h, ampm) ==
    IF ampm = "AM" THEN (IF h = 12 THEN 0 ELSE h)
    ELSE (IF h = 12 THEN 12 ELSE h + 12)

\* The naive datetime: <<year, month, day, hour, minute, second>>.
Strptime(s) ==
    <<YearOf[s[5]], MonthOf[s[1]], DayOf[s[3]],
      Hour24(ClockOf[s[7]][1], s[9]), ClockOf[s[7]][2], ClockOf[s[7]][3]>>

parse_date(s) ==
    LET c == Collapse(s)
    IN  IF StrptimeMatches(c) THEN [ok |-> TRUE, t |-> Strptime(c)]
        ELSE [ok |-> FALSE]

\* datetime a < datetime b
RECURSIVE TupleLt(_, _)
TupleLt(a, b) ==
    IF a = <<>> \/ b = <<>> THEN FALSE
    ELSE IF Head(a) = Head(b) THEN TupleLt(Tail(a), Tail(b))
    ELSE Head(a) < Head(b)

DateLe(a, b) == ~TupleLt(b, a)

-----------------------------------------------------------------------------
(* transform_row (main.py 37-59).                                           *)

\* Lines 53-57 without scope.split(): the scopes kept as one string.
ParseEventUnsplit(t) ==
    LET m == EVENT_PARSER(t)
    IN  IF ~m.ok THEN [ok |-> FALSE]
        ELSE [ok |-> TRUE, user |-> m.user, action |-> m.action,
              app |-> m.app, scope |-> <<m.scope>>]

\* Lines 53-58: the match, the RuntimeError, the groups, scope.split().
ParseEvent(t) ==
    LET m == EVENT_PARSER(t)
    IN  IF ~m.ok THEN [ok |-> FALSE]
        ELSE [ok |-> TRUE, user |-> m.user, action |-> m.action,
              app |-> m.app, scope |-> Split(m.scope)]

\* The Series returned, or the exception raised.
transform_row(row) ==
    LET e == ParseEvent(row.event)
        d == parse_date(row.date)
    IN  IF ~e.ok THEN [raised |-> "RuntimeError"]
        ELSE IF ~d.ok THEN [raised |-> "ValueError"]
        ELSE [raised |-> "none",
              value |-> [index |-> row.index, user |-> e.user,
                         action |-> e.action, app |-> e.app,
                         scope |-> e.scope, date |-> d.t]]

-----------------------------------------------------------------------------
(* The rows a log file may hold.                                            *)

\* The log's event text for the given fields.
Render(user, action, app, scopeText) ==
    user \o ActionLit(action) \o app \o ForLit \o scopeText \o ScopesLit

DateText(day, clock, ampm, zone) ==
    <<"January", " ", day, " ", "2021", " ", clock, " ", ampm, " ", zone>>

Afternoon == DateText("5", "3:04:05", "PM", "PST")
\* The same instant with irregular whitespace.
AfternoonWide ==
    <<"January", " ", " ", "05", "\t", "2021", " ", "3:04:05", " ", "PM",
      " ", "PST">>
Midnight == DateText("5", "12:00:00", "AM", "PST")
BadDate == DateText("5", "13:00:00", "PM", "PST")

Rows ==
    { \* in scope, well formed
      [event |-> Render(<<"alice">>, "authorized", <<"x">>,
                        <<"docs.google.com/feeds">>),
       date |-> Afternoon],
      [event |-> Render(<<"alice">>, "revoked", <<"x">>,
                        <<"docs.googleusercontent.com">>),
       date |-> AfternoonWide],
      [event |-> Render(<<"bob">>, "authorized", <<"x">>,
                        <<"https://spreadsheets.google.com/feeds/", " ", "x">>),
       date |-> Midnight],
      \* in scope through a marker in another case
      [event |-> Render(<<"bob">>, "revoked", <<"x">>,
                        <<"DOCS.Google.com/Feeds">>),
       date |-> Afternoon],
      \* in scope, not of the event format
      [event |-> <<"alice", " ", "did", " ", "docs.googleusercontent.com">>,
       date |-> Afternoon],
      \* in scope, not of the date format
      [event |-> Render(<<"alice">>, "authorized", <<"x">>,
                        <<"docs.google.com/feeds">>),
       date |-> BadDate],
      \* out of scope, well formed
      [event |-> Render(<<"bob">>, "authorized", <<"x">>, <<"x">>),
       date |-> Midnight],
      \* out of scope by one character
      [event |-> Render(<<"alice">>, "authorized", <<"x">>,
                        <<"docs.google.com/feed">>),
       date |-> Afternoon],
      \* out of scope, of neither format
      [event |-> <<"alice", " ", "did", " ", "x">>,
       date |-> BadDate] }

RECURSIVE SeqsUpTo(_, _)
SeqsUpTo(S, n) ==
    IF n = 0 THEN {<<>>}
    ELSE LET shorter == SeqsUpTo(S, n - 1)
         IN  shorter \cup {Append(q, x) : q \in shorter, x \in S}

Logs == SeqsUpTo(Rows, MaxRows)

-----------------------------------------------------------------------------
(* main (main.py 62-86).                                                    *)

RawColumns == {"event", "date"}
SeriesColumns == {"user", "action", "app", "scope", "date"}

\* The query without its WHERE clause.
WhereAll(rows) == rows

\* The rows of the log the WHERE clause of QUERY selects, in table order.
Where(rows) == SelectSeq(rows, LAMBDA row : QUERY(Chars(row.event)))

\* pandasql.sqldf(QUERY, locals()): a DataFrame of the selected rows with a
\* fresh index 0, 1, ...
sqldf(rows) ==
    LET sel == Where(rows)
    IN  [n \in 1..Len(sel) |->
            [index |-> n - 1, event |-> sel[n].event, date |-> sel[n].date]]

Sqldf ==
    /\ pc = "sqldf"
    /\ frame' = sqldf(log)
    /\ columns' = RawColumns
    /\ k' = 1
    /\ pc' = "apply"
    /\ UNCHANGED <<log, results, groups, g, r, out, status, err,
                   event, text, parsed>>

\* An uncaught exception: the traceback, exit status 1.
Raise(e) ==
    /\ pc' = "raised"
    /\ err' = e
    /\ status' = "exit 1"

\* DataFrame.apply on a frame with no rows: pandas tries transform_row on an
\* empty Series, swallows its KeyError and returns a copy of the frame.
ApplyEmpty ==
    /\ pc = "apply"
    /\ frame = <<>>
    /\ pc' = "sort"
    /\ UNCHANGED <<log, columns, frame, results, k, groups, g, r, out,
                   status, err, event, text, parsed>>

\* DataFrame.apply with a transform_row that drops the rows it cannot parse.
ApplyRowSkipping ==
    /\ pc = "apply"
    /\ k <= Len(frame)
    /\ LET res == transform_row(frame[k])
           got == IF res.raised = "none" THEN Append(results, res.value)
                  ELSE results
       IN  IF k < Len(frame)
           THEN /\ results' = got
                /\ k' = k + 1
                /\ UNCHANGED <<pc, columns, frame, status, err>>
           ELSE /\ frame' = got
                /\ columns' = SeriesColumns
                /\ results' = <<>>
                /\ k' = k + 1
                /\ pc' = "sort"
                /\ UNCHANGED <<status, err>>
    /\ UNCHANGED <<log, groups, g, r, out, event, text, parsed>>

\* DataFrame.apply, one row: transform_row returns a Series or raises; after
\* the last row the Series make the new DataFrame.
ApplyRow ==
    /\ pc = "apply"
    /\ k <= Len(frame)
    /\ LET res == transform_row(frame[k])
       IN  IF res.raised # "none"
           THEN /\ Raise(res.raised)
                /\ UNCHANGED <<columns, frame, results, k>>
           ELSE IF k < Len(frame)
           THEN /\ results' = Append(results, res.value)
                /\ k' = k + 1
                /\ UNCHANGED <<pc, columns, frame, status, err>>
           ELSE /\ frame' = Append(results, res.value)
                /\ columns' = SeriesColumns
                /\ results' = <<>>
                /\ k' = k + 1
                /\ pc' = "sort"
                /\ UNCHANGED <<status, err>>
    /\ UNCHANGED <<log, groups, g, r, out, event, text, parsed>>

Injective(f) == \A a, b \in DOMAIN f : f[a] = f[b] => a = b

\* DataFrame.sort('date', ascending=False).
SortedByDescending(rows) ==
    {[n \in 1..Len(rows) |-> rows[p[n]]] :
        p \in {q \in [1..Len(rows) -> 1..Len(rows)] :
                /\ Injective(q)
                /\ \A a, b \in 1..Len(rows) :
                      a < b => DateLe(rows[q[b]].date, rows[q[a]].date)}}

\* The orders DataFrame.sort('date') may leave the rows in: ascending by
\* date; kind='quicksort' fixes no order among equal dates.
SortedBy(rows) ==
    {[n \in 1..Len(rows) |-> rows[p[n]]] :
        p \in {q \in [1..Len(rows) -> 1..Len(rows)] :
                /\ Injective(q)
                /\ \A a, b \in 1..Len(rows) :
                      a < b => DateLe(rows[q[a]].date, rows[q[b]].date)}}

\* The frame has a column 'date' whether transform_row made it or QUERY did.
Sort ==
    /\ pc = "sort"
    /\ "date" \in columns
    /\ frame' \in SortedBy(frame)
    /\ pc' = "groupby"
    /\ UNCHANGED <<log, columns, results, k, groups, g, r, out, status, err,
                   event, text, parsed>>

\* The distinct keys in ascending order (groupby sorts its keys: sort=True).
RECURSIVE SortedKeys(_)
SortedKeys(keys) ==
    IF keys = {} THEN <<>>
    ELSE LET least == CHOOSE u \in keys :
                          \A v \in keys \ {u} : StrLt(Chars(u), Chars(v))
         IN  <<least>> \o SortedKeys(keys \ {least})

\* The distinct keys in the order the rows first show them.
RECURSIVE FirstSeen(_, _)
FirstSeen(rows, seen) ==
    IF rows = <<>> THEN <<>>
    ELSE IF Head(rows).user \in seen THEN FirstSeen(Tail(rows), seen)
    ELSE <<Head(rows).user>>
         \o FirstSeen(Tail(rows), seen \cup {Head(rows).user})

\* groupby('user', sort=False).
groupbyUnsorted(rows) ==
    LET keys == FirstSeen(rows, {})
    IN  [n \in 1..Len(keys) |->
            [user |-> keys[n],
             rows |-> SelectSeq(rows, LAMBDA row : row.user = keys[n])]]

\* A grouping that keeps the first row of each user only.
groupbyFirstOnly(rows) ==
    LET keys == SortedKeys({rows[n].user : n \in 1..Len(rows)})
    IN  [n \in 1..Len(keys) |->
            [user |-> keys[n],
             rows |-> <<SelectSeq(rows, LAMBDA row : row.user = keys[n])[1]>>]]

\* The groups of the frame by user: each key with its rows in frame order.
groupby(rows) ==
    LET keys == SortedKeys({rows[n].user : n \in 1..Len(rows)})
    IN  [n \in 1..Len(keys) |->
            [user |-> keys[n],
             rows |-> SelectSeq(rows, LAMBDA row : row.user = keys[n])]]

GroupBy ==
    /\ pc = "groupby"
    /\ IF "user" \in columns
       THEN /\ groups' = groupby(frame)
            /\ g' = 1
            /\ r' = 0
            /\ pc' = "print"
            /\ UNCHANGED <<status, err>>
       ELSE /\ Raise("KeyError")
            /\ UNCHANGED <<groups, g, r>>
    /\ UNCHANGED <<log, columns, frame, results, k, out, event, text, parsed>>

\* Lines 81-82: an empty line, then the header of the group.
PrintHeader ==
    /\ pc = "print"
    /\ g <= Len(groups)
    /\ r = 0
    /\ out' = out \o <<[kind |-> "blank"],
                       [kind |-> "header", user |-> groups[g].user]>>
    /\ r' = 1
    /\ UNCHANGED <<log, pc, columns, frame, results, k, groups, g, status,
                   err, event, text, parsed>>

\* Line 84: one event of the group.
PrintRow ==
    /\ pc = "print"
    /\ g <= Len(groups)
    /\ r >= 1
    /\ LET row == groups[g].rows[r]
       IN  out' = Append(out, [kind |-> "event", date |-> row.date,
                               action |-> row.action, app |-> row.app,
                               scope |-> Join(row.scope)])
    /\ IF r < Len(groups[g].rows)
       THEN r' = r + 1 /\ g' = g
       ELSE r' = 0 /\ g' = g + 1
    /\ UNCHANGED <<log, pc, columns, frame, results, k, groups, status,
                   err, event, text, parsed>>

\* Lines 86 and 90-91: return 0, sys.exit(0).
Return ==
    /\ pc = "print"
    /\ g > Len(groups)
    /\ pc' = "done"
    /\ status' = "exit 0"
    /\ UNCHANGED <<log, columns, frame, results, k, groups, g, r, out, err,
                   event, text, parsed>>

NoEvent == [ok |-> FALSE]

Init ==
    /\ log \in Logs
    /\ pc = "sqldf"
    /\ columns = RawColumns
    /\ frame = <<>>
    /\ results = <<>>
    /\ k = 1
    /\ groups = <<>>
    /\ g = 1
    /\ r = 0
    /\ out = <<>>
    /\ status = "running"
    /\ err = "none"
    /\ event = NoEvent
    /\ text = <<>>
    /\ parsed = NoEvent

Next ==
    \/ Sqldf
    \/ ApplyEmpty
    \/ ApplyRow
    \/ Sort
    \/ GroupBy
    \/ PrintHeader
    \/ PrintRow
    \/ Return

Spec == Init /\ [][Next]_vars

-----------------------------------------------------------------------------
(* The parser on its own: an event text is parsed as lines 53-58 of         *)
(* transform_row parse it; the text is given, or rendered from an event.    *)

\* The pieces given texts are made of.
Pieces ==
    { <<"x">>, <<" ">>, <<"\n">>,
      <<"x">> \o ActionLit("authorized") \o <<"x">>,
      ActionLit("revoked"),
      ForLit,
      ScopesLit,
      ScopesLit \o <<"\n">> }

RECURSIVE Concat(_)
Concat(ps) == IF ps = <<>> THEN <<>> ELSE Head(ps) \o Concat(Tail(ps))

Texts == {Concat(ps) : ps \in SeqsUpTo(Pieces, MaxPieces)}

\* The values of the user and app fields of the events rendered.
FieldValues ==
    { <<"x">>, <<"x", " ", "x">>, <<" ">>, <<"x", "\n">>,
      <<"x", " ", "for", " ", "x">>,
      <<"x">> \o ActionLit("revoked") \o <<"x">> }

\* The scope tokens of the events rendered.
TokenValues == { <<"x">>, <<"for">>, <<"scopes">>, <<"x", "\t", "x">> }

Events ==
    {[ok |-> TRUE, user |-> u, action |-> a, app |-> p, scope |-> sc] :
        u \in FieldValues, a \in Actions, p \in FieldValues,
        sc \in SeqsUpTo(TokenValues, MaxScopes) \ {<<>>}}

InitParser ==
    /\ log = <<>>
    /\ columns = RawColumns
    /\ frame = <<>>
    /\ results = <<>>
    /\ k = 1
    /\ groups = <<>>
    /\ g = 1
    /\ r = 0
    /\ out = <<>>
    /\ status = "running"
    /\ err = "none"
    /\ parsed = NoEvent
    /\ \/ /\ event = NoEvent
          /\ text \in Texts
          /\ pc = "parse"
       \/ /\ event \in Events
          /\ text = <<>>
          /\ pc = "render"

\* The event written in the log's format.
RenderEvent ==
    /\ pc = "render"
    /\ text' = Render(event.user, event.action, event.app, Join(event.scope))
    /\ pc' = "parse"
    /\ UNCHANGED <<log, columns, frame, results, k, groups, g, r, out,
                   status, err, event, parsed>>

\* Lines 53-58 of transform_row on the text.
ParseText ==
    /\ pc = "parse"
    /\ parsed' = ParseEvent(text)
    /\ pc' = "parsed"
    /\ UNCHANGED <<log, columns, frame, results, k, groups, g, r, out,
                   status, err, event, text>>

NextParser ==
    \/ RenderEvent
    \/ ParseText

SpecParser == InitParser /\ [][NextParser]_vars

-----------------------------------------------------------------------------
(* Properties.                                                              *)

\* The event and date texts of a row of the log or of a frame.
Texts2(row) == [event |-> row.event, date |-> row.date]

\* The rows the Record Filter selects.
SelectedRows == {row \in Rows : QUERY(Chars(row.event))}

Selected(row) == Texts2(row) \in SelectedRows

\* The rows whose event text is of the event format and whose date text is
\* of the date format.
WellFormedRows ==
    {row \in Rows : EVENT_PARSER(row.event).ok /\ parse_date(row.date).ok}

WellFormed(row) == Texts2(row) \in WellFormedRows

\* What transform_row makes of each row, but for the index label.
Transformed ==
    [row \in Rows |->
        transform_row([index |-> 0, event |-> row.event, date |-> row.date])]

InScopeRows == {n \in 1..Len(log) : Selected(log[n])}

\* The in-scope rows of the log, in order.
InScopeSeq == SelectSeq(log, Selected)

BadInScope == \E n \in InScopeRows : ~WellFormed(log[n])

Grouped == pc \in {"print", "done"}

Sorted == pc \in {"groupby", "print", "done"} /\ columns = SeriesColumns

\* The places <<group, row>> of the events of the reports.
Cells ==
    UNION {{<<a, b>> : b \in 1..Len(groups[a].rows)} : a \in 1..Len(groups)}

CellRow(c) == groups[c[1]].rows[c[2]]

HeaderLines == {n \in 1..Len(out) : out[n].kind = "header"}

EventLines == {n \in 1..Len(out) : out[n].kind = "event"}

\* A datetime as the seconds since the start of 2000 in a calendar of 31-day
\* months: later datetimes and only they have more seconds.
Seconds(t) ==
    (((((t[1] - 2000) * 12 + t[2]) * 31 + t[3]) * 24 + t[4]) * 60 + t[5]) * 60
    + t[6]

Ascending(rows) ==
    \A a, b \in 1..Len(rows) :
        a < b => Seconds(rows[a].date) <= Seconds(rows[b].date)

\* C1: when a row the filter selects has an event text that is not of the
\* event format or a date text that is not of the date format, the run never
\* gets past DataFrame.apply, where a row is left to transform until an
\* exception of transform_row ends the run with exit status 1, and nothing is
\* printed, no header and no event, also not for the users of the rows
\* before the offending one.
C1_FailFast ==
    BadInScope =>
        /\ out = <<>>
        /\ pc \in {"sqldf", "apply", "raised"}
        /\ status # "exit 0"
        /\ pc = "raised" =>
              err \in {"RuntimeError", "ValueError"} /\ status = "exit 1"
        /\ pc = "apply" => k <= Len(frame)

\* The run was aborted by a row that followed a well-formed in-scope row.
C1_Witness ==
    /\ pc = "raised"
    /\ BadInScope
    /\ err = "RuntimeError"
    /\ k > 1
    /\ results # <<>>
    /\ out = <<>>

\* C2: once the rows are grouped, the reports partition the events of the
\* in-scope rows: the event of every in-scope row is in exactly one report,
\* the report of its user; the reports hold nothing else; no two reports are
\* of the same user; and a run that completes prints one line per event.
C2_Partition ==
    Grouped =>
        LET sel == InScopeSeq
        IN  /\ \A n \in 1..Len(sel) :
                  /\ Cardinality({c \in Cells : CellRow(c).index = n - 1}) = 1
                  /\ \A c \in Cells :
                        CellRow(c).index = n - 1 =>
                            /\ CellRow(c) =
                                  [Transformed[sel[n]].value
                                      EXCEPT !.index = n - 1]
                            /\ groups[c[1]].user = CellRow(c).user
            /\ Cardinality(Cells) = Len(sel)
            /\ \A a, b \in 1..Len(groups) :
                  a # b => groups[a].user # groups[b].user
            /\ pc = "done" => Cardinality(EventLines) = Len(sel)

\* A completed run with two reports, one of them of two events.
C2_Witness ==
    /\ pc = "done"
    /\ status = "exit 0"
    /\ Len(groups) = 2
    /\ \E a \in 1..Len(groups) : Len(groups[a].rows) = 2

\* C3: after the sort the events are in ascending order of their timestamps,
\* in the sorted sequence and in every report.
C3_Chronological ==
    /\ Sorted => Ascending(frame)
    /\ Grouped => \A a \in 1..Len(groups) : Ascending(groups[a].rows)

\* A completed run with a report whose two events came in the log in the
\* opposite order of their timestamps.
C3_Witness ==
    /\ pc = "done"
    /\ \E a \in 1..Len(groups) :
          /\ Len(groups[a].rows) = 2
          /\ groups[a].rows[1].index > groups[a].rows[2].index
          /\ Seconds(groups[a].rows[1].date) < Seconds(groups[a].rows[2].date)

\* Two events differ in more than their index labels.
Differ(x, y) == [x EXCEPT !.index = 0] # [y EXCEPT !.index = 0]

\* Rows with equal dates are in the order of their index labels, which is
\* the order of their rows in the input (rows that differ in nothing else
\* aside: their order does not show).
TiesInInputOrder(rows) ==
    \A a, b \in 1..Len(rows) :
        a < b /\ rows[a].date = rows[b].date /\ Differ(rows[a], rows[b]) =>
            rows[a].index < rows[b].index

\* C4: of two in-scope events with equal timestamps, the one whose row came
\* earlier in the input is earlier in the sorted sequence and, when both are
\* of one user, earlier in that user's report.
C4_Stable ==
    /\ Sorted => TiesInInputOrder(frame)
    /\ Grouped => \A n \in 1..Len(groups) : TiesInInputOrder(groups[n].rows)

\* The three markers: the LIKE patterns without their % signs.
Markers ==
    {SubSeq(p, 2, Len(p) - 1) :
        p \in {PATTERN_DOCS_FEEDS, PATTERN_USERCONTENT, PATTERN_SPREADSHEETS}}

\* m is a substring of s, character for character.
HasSubstring(s, m) ==
    \E p \in 0..(Len(s) - Len(m)) : \A n \in 1..Len(m) : s[p + n] = m[n]

\* m is a substring of s when the case of ASCII letters is disregarded.
HasSubstringFolded(s, m) ==
    \E p \in 0..(Len(s) - Len(m)) :
        \A n \in 1..Len(m) : Fold(s[p + n]) = Fold(m[n])

\* The event and date texts of the rows of a frame.
RowsOf(fr) == [n \in 1..Len(fr) |-> Texts2(fr[n])]

\* The rows whose event text holds a marker character for character.
LiteralRows ==
    {row \in Rows : \E m \in Markers : HasSubstring(Chars(row.event), m)}

\* The rows whose event text holds a marker but for the case of letters.
FoldedRows ==
    {row \in Rows : \E m \in Markers : HasSubstringFolded(Chars(row.event), m)}

\* C5 as stated: the rows selected are the rows whose event text holds one
\* of the three markers character for character, in their original order,
\* and the filter has not failed.
C5_LiteralFilter ==
    pc = "apply" =>
          /\ err = "none"
          /\ status = "running"
          /\ RowsOf(frame) = SelectSeq(log, LAMBDA row : row \in LiteralRows)

\* C5 amended: the rows selected are the rows whose event text holds one of
\* the three markers when the case of ASCII letters is disregarded, in their
\* original order, and the filter has not failed.
C5_FoldedFilter ==
    pc = "apply" =>
          /\ err = "none"
          /\ status = "running"
          /\ RowsOf(frame) = SelectSeq(log, LAMBDA row : row \in FoldedRows)

\* The filter kept two rows, one of them for a marker in another case, and
\* dropped a row.
C5_Witness ==
    /\ pc = "apply"
    /\ Len(frame) = 2
    /\ Len(log) = 3
    /\ \E n \in 1..Len(frame) : Texts2(frame[n]) \notin LiteralRows

\* C8: when no row of the input is in scope, the run does not fail, prints
\* no user and ends with exit status 0.
C8_EmptySucceeds ==
    InScopeRows = {} =>
        /\ status # "exit 1"
        /\ out = <<>>
        /\ pc \in {"done", "raised"} => status = "exit 0"

\* C9: transform_row is given only rows the filter selected: the row it is
\* applied to next is in scope, an exception of the event parser or of the
\* date parser comes from an in-scope row that is not well formed (so never
\* when every in-scope row is well formed), and the transformed frame holds
\* one event per in-scope row and no other.
C9_FilterFirst ==
    /\ pc = "apply" /\ k <= Len(frame) =>
          /\ Selected(frame[k])
          /\ \E n \in 1..Len(log) :
                log[n].event = frame[k].event /\ log[n].date = frame[k].date
    /\ err \in {"RuntimeError", "ValueError"} =>
          Selected(frame[k]) /\ ~WellFormed(frame[k])
    /\ ~BadInScope => err \notin {"RuntimeError", "ValueError"}
    /\ columns = SeriesColumns => Len(frame) = Cardinality(InScopeRows)

\* A completed run on a log with a row out of scope that is of neither format.
C9_Witness ==
    /\ pc = "done"
    /\ Len(frame) >= 1
    /\ \E n \in 1..Len(log) : ~Selected(log[n]) /\ ~WellFormed(log[n])

\* The first place of a user in the sorted sequence.
FirstAt(u) == CHOOSE n \in 1..Len(frame) :
                  /\ frame[n].user = u
                  /\ \A m \in 1..(n - 1) : frame[m].user # u

\* C10 as stated: the header of user A precedes the header of user B exactly
\* when A's first event in the sorted sequence comes before B's first event.
\* It is stated of the runs whose sort left equal timestamps in input order,
\* so that the order of ties plays no part in it.
C10_FirstSeenOrder ==
    pc = "done" /\ TiesInInputOrder(frame) =>
        \A a, b \in HeaderLines :
            a < b <=> FirstAt(out[a].user) < FirstAt(out[b].user)

\* C10 amended: the headers are printed in ascending order of the user
\* names (compared byte by byte), whatever the order of the events.
C10_NameOrder ==
    /\ \A a, b \in HeaderLines :
          a < b => StrLt(Chars(out[a].user), Chars(out[b].user))
    /\ Grouped =>
          \A a, b \in 1..Len(groups) :
              a < b => StrLt(Chars(groups[a].user), Chars(groups[b].user))

\* A completed run with two headers whose users come in the other order in
\* the sorted sequence.
C10_Witness ==
    /\ pc = "done"
    /\ TiesInInputOrder(frame)
    /\ Cardinality(HeaderLines) = 2
    /\ \E a, b \in HeaderLines :
          a < b /\ FirstAt(out[b].user) < FirstAt(out[a].user)


\* The places where a literal stands in a text.
Occurrences(t, lit) == {p \in 1..Len(t) : LitAt(t, p, lit)}

\* The text of an event in the log's format:
\* '<actor> <action> access to <application> for <scopes> scopes'.
Rendered(e) == Render(e.user, e.action, e.app, Join(e.scope))

\* No line break in the actor and the application, no whitespace in a scope
\* token.
Plain(e) ==
    /\ \A n \in 1..Len(e.user) : e.user[n] # "\n"
    /\ \A n \in 1..Len(e.app) : e.app[n] # "\n"
    /\ \A n \in 1..Len(e.scope) :
          \A m \in 1..Len(e.scope[n]) : ~IsSpace(e.scope[n][m])

\* C6 as stated: an event with a non-empty actor, an action of the two, a
\* non-empty application and one or more non-empty scope tokens, rendered
\* and parsed, gives back its actor, action, application and scopes.  It is
\* stated of the plain events, the ones most in its favour.
C6_RoundTrip ==
    pc = "parsed" /\ event.ok /\ Plain(event) => parsed = event

\* The events the amended C6 is about: plain, and the two inner literals
\* of the format, ' authorized access to ' or ' revoked access to ' and
\* ' for ', each at one place of the rendered text only.
Unambiguous(e) ==
    /\ Plain(e)
    /\ Cardinality(UNION {Occurrences(Rendered(e), ActionLit(a)) :
                              a \in Actions}) = 1
    /\ Cardinality(Occurrences(Rendered(e), ForLit)) = 1

\* C6 amended: the round trip holds for the events whose actor and
\* application hold no line break, whose scope tokens hold no whitespace and
\* whose rendered text holds ' authorized access to ' or ' revoked access
\* to ' at one place only and ' for ' at one place only.
C6_RoundTripUnambiguous ==
    pc = "parsed" /\ event.ok /\ Unambiguous(event) => parsed = event

\* An unambiguous event with a space in its actor and two scopes went round.
C6_Witness ==
    /\ pc = "parsed"
    /\ event.ok
    /\ Unambiguous(event)
    /\ " " \in {event.user[n] : n \in 1..Len(event.user)}
    /\ Len(event.scope) = 2
    /\ parsed = event

\* C7 as stated: when the parser succeeds, the actor and the application are
\* non-empty, and the scopes are one or more tokens, none of them empty.
C7_NonEmpty ==
    pc = "parsed" /\ parsed.ok =>
        /\ parsed.user # <<>>
        /\ parsed.app # <<>>
        /\ Len(parsed.scope) >= 1
        /\ \A n \in 1..Len(parsed.scope) : parsed.scope[n] # <<>>

\* C7 amended: when the parser succeeds, the actor and the application are
\* non-empty and every scope token is non-empty and holds no whitespace; the
\* scopes are one or more tokens unless the text between ' for ' and
\* ' scopes' is whitespace only, and then there is no scope at all.
C7_NonEmptyTokens ==
    pc = "parsed" /\ parsed.ok =>
        /\ parsed.user # <<>>
        /\ parsed.app # <<>>
        /\ \A n \in 1..Len(parsed.scope) :
              /\ parsed.scope[n] # <<>>
              /\ \A m \in 1..Len(parsed.scope[n]) :
                    ~IsSpace(parsed.scope[n][m])
        /\ LET matched == EVENT_PARSER(text).scope
           IN  /\ matched # <<>>
               /\ parsed.scope = <<>> <=>
                     \A n \in 1..Len(matched) : IsSpace(matched[n])

\* The parser succeeded on a given text and returned no scope.
C7_Witness ==
    /\ pc = "parsed"
    /\ ~event.ok
    /\ parsed.ok
    /\ parsed.scope = <<>>

=============================================================================
